---- MODULE Spec2Model ----
(***************************************************************************)
(* State-machine model of wayland-tablet (src/src/lib.rs): the discovery   *)
(* reconciliation of WlSeat and ZwpTabletManagerV2 globals, the per-tool   *)
(* handler closure installed by got_tool, and the flush / read / dispatch  *)
(* / drain cycle of WaylandTablet::events.                                 *)
(*                                                                         *)
(* The compositor is the environment.  What it may send in one session is  *)
(* fixed at the start of the session by `env`, one of the bounded          *)
(* envelopes of Sessions; a behaviour explores every order of the          *)
(* notifications its envelope allows.                                      *)
(***************************************************************************)
EXTENDS Integers, Sequences, FiniteSets, TLC

(* ---------------------------------------------------------------------- *)
(* Bounds of the exploration                                               *)
(* ---------------------------------------------------------------------- *)
\* WlSeat globals announced while discovery is explored
MaxSeats == 2
\* ZwpTabletManagerV2 globals announced while discovery is explored
MaxManagers == 2
\* tool proxies announced while negotiations are interleaved
MaxTools == 2
\* tool proxies announced while tool IDs are handed out
MaxIdTools == 3
\* Capability notifications delivered while negotiations are interleaved
MaxCaps == 2
\* Capability notifications delivered to one tool offered every value
MaxFlags == 3
\* events pushed while discovery is explored
DiscoveryEvents == 1
\* events pushed while negotiations are interleaved
NegotiationEvents == 2
\* events pushed while tool IDs are handed out
IdEvents == 3
\* events pushed while one tool is translated end to end
TranslationEvents == 5
\* events pushed while the pressure range is explored
PressureEvents == 2
\* events pushed while polls are interleaved with dispatch
PollingEvents == 3
\* events pushed while two tools commit and report contact
InterleavingEvents == 3
\* completed calls of events() while polls are interleaved with dispatch
MaxPolls == 2
\* notifications that fall in a `_ => ()` arm
MaxIgnored == 1

(* ---------------------------------------------------------------------- *)
(* Program constants and input alphabets                                   *)
(* ---------------------------------------------------------------------- *)
\* divisor of the pressure normalisation
PressureDivisor == 65535

None == 0
NoType == "None"
ToolTypes == {"Pen", "Eraser"}
KnownCaps == {"tilt", "pressure", "distance", "rotation", "slider", "wheel"}
\* "unknown" stands for any capability value outside the six matched ones
CapInputs == KnownCaps \cup {"unknown"}
RawPressures == {0, 32767, PressureDivisor}
\* tool notifications that reach the `_ => ()` arm of the tool handler
OtherToolEvents == {"Distance", "Tilt", "Rotation", "Slider", "Wheel",
                    "ProximityIn", "ProximityOut", "Button", "Frame"}
\* tablet-seat notifications that reach the `_ => ()` arm of the seat handler
OtherSeatEvents == {"TabletAdded", "PadAdded"}
\* tool notifications that push an event, and Removed
ToolKinds == {"Done", "Removed", "Down", "Up", "Motion", "Pressure"}

(* ---------------------------------------------------------------------- *)
(* Session envelopes: what the compositor sends in one session             *)
(* ---------------------------------------------------------------------- *)
\* both discovery notifications repeated, one tool
SessionDiscovery ==
    [name |-> "discovery", seats |-> MaxSeats, managers |-> MaxManagers,
     tools |-> 1, types |-> {"Pen"}, flags |-> {"pressure"}, caps |-> 1,
     kinds |-> {"Done", "Down"}, events |-> DiscoveryEvents, repeat |-> 1,
     xs |-> {}, ys |-> {}, raws |-> {}, polls |-> 1, fail |-> FALSE,
     early |-> TRUE, ignored |-> MaxIgnored]

\* the negotiations of several tools interleaved
SessionNegotiation ==
    [name |-> "negotiation", seats |-> 1, managers |-> 1,
     tools |-> MaxTools, types |-> ToolTypes,
     flags |-> {"pressure", "tilt"}, caps |-> MaxCaps, kinds |-> {"Done"}, events |-> NegotiationEvents,
     repeat |-> 1, xs |-> {}, ys |-> {}, raws |-> {}, polls |-> 1,
     fail |-> FALSE, early |-> FALSE, ignored |-> 0]

\* tools committed, removed and committed again
SessionIds ==
    [name |-> "ids", seats |-> 1, managers |-> 1,
     tools |-> MaxIdTools, types |-> {"Pen"}, flags |-> {}, caps |-> 0,
     kinds |-> {"Done", "Removed"}, events |-> IdEvents,
     repeat |-> 1, xs |-> {}, ys |-> {}, raws |-> {}, polls |-> 1,
     fail |-> FALSE, early |-> FALSE, ignored |-> 0]

\* one tool, every kind of notification once
SessionTranslation ==
    [name |-> "translation", seats |-> 1, managers |-> 1,
     tools |-> 1, types |-> {"Pen"}, flags |-> {"pressure"}, caps |-> 1,
     kinds |-> ToolKinds, events |-> TranslationEvents, repeat |-> 1,
     xs |-> {1}, ys |-> {2}, raws |-> {32767}, polls |-> 1,
     fail |-> FALSE, early |-> FALSE, ignored |-> 0]

\* one tool, the pressure range
SessionPressure ==
    [name |-> "pressure", seats |-> 1, managers |-> 1,
     tools |-> 1, types |-> {"Pen"}, flags |-> {}, caps |-> 0,
     kinds |-> {"Done", "Pressure"}, events |-> PressureEvents,
     repeat |-> PressureEvents, xs |-> {}, ys |-> {}, raws |-> RawPressures,
     polls |-> 1, fail |-> FALSE, early |-> FALSE, ignored |-> 0]

\* one tool, every capability value
SessionCapabilities ==
    [name |-> "capabilities", seats |-> 1, managers |-> 1,
     tools |-> 1, types |-> {"Eraser"}, flags |-> CapInputs,
     caps |-> MaxFlags, kinds |-> {"Done"}, events |-> 1, repeat |-> 1,
     xs |-> {}, ys |-> {}, raws |-> {}, polls |-> 1, fail |-> FALSE,
     early |-> FALSE, ignored |-> 0]

\* polls interleaved with dispatch, transport failures included
SessionPolling ==
    [name |-> "polling", seats |-> 1, managers |-> 1,
     tools |-> 1, types |-> {"Pen"}, flags |-> {}, caps |-> 0,
     kinds |-> {"Done", "Down", "Up"}, events |-> PollingEvents,
     repeat |-> PollingEvents, xs |-> {}, ys |-> {}, raws |-> {},
     polls |-> MaxPolls, fail |-> TRUE, early |-> TRUE, ignored |-> 0]

\* two tools negotiating and reporting contact in any interleaving
SessionInterleaving ==
    [name |-> "interleaving", seats |-> 1, managers |-> 1,
     tools |-> MaxTools, types |-> ToolTypes, flags |-> {},
     caps |-> 0, kinds |-> {"Done", "Down"}, events |-> InterleavingEvents,
     repeat |-> 1, xs |-> {}, ys |-> {}, raws |-> {},
     polls |-> 1, fail |-> FALSE, early |-> FALSE, ignored |-> 0]

Sessions == {SessionDiscovery, SessionNegotiation, SessionIds,
             SessionTranslation, SessionPressure, SessionCapabilities,
             SessionPolling, SessionInterleaving}

VARIABLES
    unseated_manager,   \* Option<Main<ZwpTabletManagerV2>>: None or a handle
    seat,               \* Option<WlSeat>: None or a handle
    tablet_seat,        \* Option<Main<ZwpTabletSeatV2>>: None or a proxy
    next_tool_id,       \* ToolID counter
    events,             \* VecDeque<Event>
    tools,              \* captured state of each closure got_tool installed
    pc,                 \* position of the session: constructor, events(), panic
    wl_seat_calls,      \* tablet-seat proxies that carry the seat handler
    env,                \* the envelope of this session (never changes)
    n_seat,             \* history: SeatDiscovered notifications handled
    n_manager,          \* history: ManagerDiscovered notifications handled
    reported,           \* history: per tool, the type and capabilities notified
    removed_at,         \* history: per tool, events pushed before its first Removed (-1: none)
    sent,               \* history: every event pushed, its tool and notification
    polls,              \* history: the Vec each completed events() returned
    dispatched,         \* history: a notification was handled since events() began
    ignored             \* history: notifications that hit a `_ => ()` arm

vars == <<unseated_manager, seat, tablet_seat, next_tool_id, events, tools, pc,
          wl_seat_calls, env, n_seat, n_manager, reported, removed_at, sent,
          polls, dispatched, ignored>>

(* ---------------------------------------------------------------------- *)
(* Value types                                                             *)
(* ---------------------------------------------------------------------- *)
\* Capability::default()
DefaultCapability ==
    [tilt |-> FALSE, pressure |-> FALSE, distance |-> FALSE,
     rotation |-> FALSE, slider |-> FALSE, wheel |-> FALSE]

\* the locals got_tool moves into the closure
NewToolClosure ==
    [ttype |-> NoType, cap |-> DefaultCapability, this_tool_id |-> 0]

TabletTool(id, tool_type, capability) ==
    [id |-> id, tool_type |-> tool_type, capability |-> capability]

EvToolCreated(tool) == [kind |-> "ToolCreated", id |-> tool.id, tool |-> tool]
EvDown(id) == [kind |-> "Down", id |-> id]
EvUp(id) == [kind |-> "Up", id |-> id]
\* Moved built with x and y exchanged
EvMoved_swapped(id, x, y) == [kind |-> "Moved", id |-> id, x |-> y, y |-> x]

EvMoved(id, x, y) == [kind |-> "Moved", id |-> id, x |-> x, y |-> y]
\* pressure as f64 / 65535.0, kept as the exact ratio <<numerator, denominator>>
\* the raw value passed through without the division
EvPressure_raw(id, raw) ==
    [kind |-> "Pressure", id |-> id, pressure |-> <<raw, 1>>]

EvPressure(id, raw) ==
    [kind |-> "Pressure", id |-> id, pressure |-> <<raw, PressureDivisor>>]

PanicStates == {"panic_roundtrip", "panic_flush", "panic_read",
                "panic_dispatch", "panic_unwrap_type"}
Aborted == pc \in PanicStates
\* handlers run inside sync_roundtrip and inside dispatch_pending
Dispatching == pc \in {"roundtrip", "dispatch"}
\* tablet-seat and tool notifications reach the constructor's round trip only
\* when the compositor answers get_tablet_seat before the sync callback is read
ToolDispatching == pc = "dispatch" \/ (pc = "roundtrip" /\ env.early)

(* ---------------------------------------------------------------------- *)
(* WaylandTabletInner                                                      *)
(* ---------------------------------------------------------------------- *)
Init ==
    /\ unseated_manager = None
    /\ seat = None
    /\ tablet_seat = None
    /\ next_tool_id = 0
    /\ events = <<>>
    /\ tools = <<>>
    /\ pc = "roundtrip"
    /\ wl_seat_calls = 0
    /\ env \in Sessions
    /\ n_seat = 0
    /\ n_manager = 0
    /\ reported = <<>>
    /\ removed_at = <<>>
    /\ sent = <<>>
    /\ polls = <<>>
    /\ dispatched = FALSE
    /\ ignored = 0

\* push_front in place of push_back
send_front(queue, event) == <<event>> \o queue

\* self.events.push_back(event)
send(queue, event) == Append(queue, event)

\* notifications of one kind that tool k turned into an event so far
Pushed(k, kind) ==
    Cardinality({i \in DOMAIN sent : sent[i].src = k /\ sent[i].note.kind = kind})

\* the push together with its history record
Push(k, note, event) ==
    /\ note.kind \in env.kinds
    /\ Len(sent) < env.events
    /\ Pushed(k, note.kind) < env.repeat
    /\ events' = send(events, event)
    /\ sent' = Append(sent, [src |-> k, note |-> note, ev |-> event])

\* wl_seat: quick_assign the seat handler on a fresh proxy, keep the proxy
wl_seat ==
    /\ wl_seat_calls' = wl_seat_calls + 1
    /\ tablet_seat' = wl_seat_calls + 1

\* got_seat that forgets the pending manager
got_seat_unbound(s) ==
    IF seat # None
    THEN UNCHANGED <<seat, tablet_seat, wl_seat_calls>>
    ELSE /\ seat' = s
         /\ UNCHANGED <<tablet_seat, wl_seat_calls>>

\* got_seat without the is_some() early return
got_seat_rebinding(s) ==
    /\ seat' = s
    /\ IF unseated_manager # None
       THEN wl_seat
       ELSE UNCHANGED <<tablet_seat, wl_seat_calls>>

got_seat(s) ==
    IF seat # None
    THEN UNCHANGED <<seat, tablet_seat, wl_seat_calls>>
    ELSE /\ seat' = s
         /\ IF unseated_manager # None
            THEN wl_seat
            ELSE UNCHANGED <<tablet_seat, wl_seat_calls>>

\* a manager that is only ever stored, never bound
got_tablet_manager_pending(m) ==
    /\ unseated_manager' = m
    /\ UNCHANGED <<tablet_seat, wl_seat_calls>>

got_tablet_manager(m) ==
    IF seat # None
    THEN /\ wl_seat
         /\ UNCHANGED unseated_manager
    ELSE /\ unseated_manager' = m
         /\ UNCHANGED <<tablet_seat, wl_seat_calls>>

\* the WlSeat arm of the global filter
SeatDiscovered ==
    /\ Dispatching
    /\ n_seat < env.seats
    /\ got_seat(n_seat + 1)
    /\ n_seat' = n_seat + 1
    /\ dispatched' = TRUE
    /\ UNCHANGED <<unseated_manager, next_tool_id, events, tools, pc, env,
                   n_manager, reported, removed_at, sent, polls, ignored>>

\* the ZwpTabletManagerV2 arm of the global filter
ManagerDiscovered ==
    /\ Dispatching
    /\ n_manager < env.managers
    /\ got_tablet_manager(n_manager + 1)
    /\ n_manager' = n_manager + 1
    /\ dispatched' = TRUE
    /\ UNCHANGED <<seat, next_tool_id, events, tools, pc, env, n_seat,
                   reported, removed_at, sent, polls, ignored>>

\* got_tool: a fresh closure is assigned to the tool proxy
got_tool ==
    /\ tools' = Append(tools, NewToolClosure)
    /\ reported' = Append(reported, [type |-> NoType, flags |-> {}])
    /\ removed_at' = Append(removed_at, -1)

\* seat handler, SeatEvent::ToolAdded
ToolAdded(ts) ==
    /\ ToolDispatching
    /\ ts \in 1..wl_seat_calls
    /\ Len(tools) < env.tools
    /\ got_tool
    /\ dispatched' = TRUE
    /\ UNCHANGED <<unseated_manager, seat, tablet_seat, next_tool_id, events,
                   pc, wl_seat_calls, env, n_seat, n_manager, sent, polls,
                   ignored>>

\* seat handler, `_ => ()`
SeatOther(ts, kind) ==
    /\ ToolDispatching
    /\ ts \in 1..wl_seat_calls
    /\ kind \in OtherSeatEvents
    /\ ignored < env.ignored
    /\ ignored' = ignored + 1
    /\ dispatched' = TRUE
    /\ UNCHANGED <<unseated_manager, seat, tablet_seat, next_tool_id, events,
                   tools, pc, wl_seat_calls, env, n_seat, n_manager, reported,
                   removed_at, sent, polls>>

(* ---------------------------------------------------------------------- *)
(* The closure got_tool assigns to a tool proxy                            *)
(* ---------------------------------------------------------------------- *)
ToolFrame ==
    UNCHANGED <<unseated_manager, seat, tablet_seat, pc, wl_seat_calls, env,
                n_seat, n_manager, polls>>

\* the match with the Tilt and Pressure arms exchanged
SetCapability_swapped(cap, flag) ==
    CASE flag = "tilt" -> [cap EXCEPT !.pressure = TRUE]
      [] flag = "pressure" -> [cap EXCEPT !.tilt = TRUE]
      [] flag = "distance" -> [cap EXCEPT !.distance = TRUE]
      [] flag = "rotation" -> [cap EXCEPT !.rotation = TRUE]
      [] flag = "slider" -> [cap EXCEPT !.slider = TRUE]
      [] flag = "wheel" -> [cap EXCEPT !.wheel = TRUE]
      [] OTHER -> cap

\* a catch-all arm that records the unknown flag as a wheel
SetCapability_catchall(cap, flag) ==
    CASE flag = "tilt" -> [cap EXCEPT !.tilt = TRUE]
      [] flag = "pressure" -> [cap EXCEPT !.pressure = TRUE]
      [] flag = "distance" -> [cap EXCEPT !.distance = TRUE]
      [] flag = "rotation" -> [cap EXCEPT !.rotation = TRUE]
      [] flag = "slider" -> [cap EXCEPT !.slider = TRUE]
      [] flag = "wheel" -> [cap EXCEPT !.wheel = TRUE]
      [] OTHER -> [cap EXCEPT !.wheel = TRUE]

\* match capability { ToolCap::Tilt => cap.tilt = true, ..., _ => () }
SetCapability(cap, flag) ==
    CASE flag = "tilt" -> [cap EXCEPT !.tilt = TRUE]
      [] flag = "pressure" -> [cap EXCEPT !.pressure = TRUE]
      [] flag = "distance" -> [cap EXCEPT !.distance = TRUE]
      [] flag = "rotation" -> [cap EXCEPT !.rotation = TRUE]
      [] flag = "slider" -> [cap EXCEPT !.slider = TRUE]
      [] flag = "wheel" -> [cap EXCEPT !.wheel = TRUE]
      [] OTHER -> cap

\* capability values notified so far, over all tools
RECURSIVE CapsNotified(_)
CapsNotified(k) ==
    IF k = 0 THEN 0 ELSE Cardinality(reported[k].flags) + CapsNotified(k - 1)

\* ToolEvent::Type { tool_type }
ToolType(k, t) ==
    /\ ToolDispatching
    /\ k \in DOMAIN tools
    /\ t \in env.types
    /\ tools' = [tools EXCEPT ![k].ttype = t]
    /\ reported' = [reported EXCEPT ![k].type = t]
    /\ dispatched' = TRUE
    /\ ToolFrame
    /\ UNCHANGED <<next_tool_id, events, removed_at, sent, ignored>>

\* ToolEvent::Capability { capability }
ToolCapability(k, flag) ==
    /\ ToolDispatching
    /\ k \in DOMAIN tools
    /\ flag \in env.flags
    /\ flag \in reported[k].flags \/ CapsNotified(Len(tools)) < env.caps
    /\ tools' = [tools EXCEPT ![k].cap = SetCapability(@, flag)]
    /\ reported' = [reported EXCEPT ![k].flags = @ \cup {flag}]
    /\ dispatched' = TRUE
    /\ ToolFrame
    /\ UNCHANGED <<next_tool_id, events, removed_at, sent, ignored>>

\* the ID the Done arm stores in this_tool_id
CommitId(counter) == counter

\* the Done arm without its increment
NextToolId_stuck(counter) == counter

\* the counter after `wti.next_tool_id += 1` (a u32: the commits of a bounded
\* session stay far below the 2^32 at which the addition overflows)
NextToolId(counter) == counter + 1

\* ToolEvent::Done: ttype.unwrap() panics on None after this_tool_id is set
ToolDone(k) ==
    /\ ToolDispatching
    /\ k \in DOMAIN tools
    /\ tools' = [tools EXCEPT ![k].this_tool_id = CommitId(next_tool_id)]
    /\ dispatched' = TRUE
    /\ IF tools[k].ttype = NoType
       THEN /\ "Done" \in env.kinds
            /\ pc' = "panic_unwrap_type"
            /\ UNCHANGED <<next_tool_id, events, sent>>
       ELSE /\ Push(k, [kind |-> "Done"],
                    EvToolCreated(TabletTool(CommitId(next_tool_id),
                                             tools[k].ttype, tools[k].cap)))
            /\ next_tool_id' = NextToolId(next_tool_id)
            /\ UNCHANGED pc
    /\ UNCHANGED <<unseated_manager, seat, tablet_seat, wl_seat_calls, env,
                   n_seat, n_manager, polls, reported, removed_at, ignored>>

\* a Removed arm that hands the newest ID back to the counter
ToolRemoved_releasing(k) ==
    /\ ToolDispatching
    /\ k \in DOMAIN tools
    /\ "Removed" \in env.kinds
    /\ removed_at' = [removed_at EXCEPT ![k] = IF @ = -1 THEN Len(sent) ELSE @]
    /\ next_tool_id' = IF next_tool_id > 0 THEN next_tool_id - 1 ELSE 0
    /\ dispatched' = TRUE
    /\ ToolFrame
    /\ UNCHANGED <<events, tools, reported, sent, ignored>>

\* ToolEvent::Removed => return
ToolRemoved(k) ==
    /\ ToolDispatching
    /\ k \in DOMAIN tools
    /\ "Removed" \in env.kinds
    /\ removed_at' = [removed_at EXCEPT ![k] = IF @ = -1 THEN Len(sent) ELSE @]
    /\ dispatched' = TRUE
    /\ ToolFrame
    /\ UNCHANGED <<next_tool_id, events, tools, reported, sent, ignored>>

\* ToolEvent::Down { .. }
\* a Down tagged with the newest ID handed out instead of the tool's own
ToolDown_latest(k) ==
    /\ ToolDispatching
    /\ k \in DOMAIN tools
    /\ Push(k, [kind |-> "Down"],
            EvDown(IF next_tool_id > 0 THEN next_tool_id - 1 ELSE 0))
    /\ dispatched' = TRUE
    /\ ToolFrame
    /\ UNCHANGED <<next_tool_id, tools, reported, removed_at, ignored>>

ToolDown(k) ==
    /\ ToolDispatching
    /\ k \in DOMAIN tools
    /\ Push(k, [kind |-> "Down"], EvDown(tools[k].this_tool_id))
    /\ dispatched' = TRUE
    /\ ToolFrame
    /\ UNCHANGED <<next_tool_id, tools, reported, removed_at, ignored>>

\* ToolEvent::Up
ToolUp(k) ==
    /\ ToolDispatching
    /\ k \in DOMAIN tools
    /\ Push(k, [kind |-> "Up"], EvUp(tools[k].this_tool_id))
    /\ dispatched' = TRUE
    /\ ToolFrame
    /\ UNCHANGED <<next_tool_id, tools, reported, removed_at, ignored>>

\* ToolEvent::Motion { x, y }
ToolMotion(k, x, y) ==
    /\ ToolDispatching
    /\ k \in DOMAIN tools
    /\ Push(k, [kind |-> "Motion", x |-> x, y |-> y],
            EvMoved(tools[k].this_tool_id, x, y))
    /\ dispatched' = TRUE
    /\ ToolFrame
    /\ UNCHANGED <<next_tool_id, tools, reported, removed_at, ignored>>

\* ToolEvent::Pressure { pressure }
ToolPressure(k, raw) ==
    /\ ToolDispatching
    /\ k \in DOMAIN tools
    /\ Push(k, [kind |-> "Pressure", pressure |-> raw],
            EvPressure(tools[k].this_tool_id, raw))
    /\ dispatched' = TRUE
    /\ ToolFrame
    /\ UNCHANGED <<next_tool_id, tools, reported, removed_at, ignored>>

\* tool handler, `_ => ()`
ToolOther(k, kind) ==
    /\ ToolDispatching
    /\ k \in DOMAIN tools
    /\ kind \in OtherToolEvents
    /\ ignored < env.ignored
    /\ ignored' = ignored + 1
    /\ dispatched' = TRUE
    /\ ToolFrame
    /\ UNCHANGED <<next_tool_id, events, tools, reported, removed_at, sent>>

(* ---------------------------------------------------------------------- *)
(* WaylandTablet: constructor round trip and events()                      *)
(* ---------------------------------------------------------------------- *)
SessionFrame ==
    UNCHANGED <<unseated_manager, seat, tablet_seat, next_tool_id, tools,
                wl_seat_calls, env, n_seat, n_manager, reported, removed_at,
                sent, ignored>>

\* sync_roundtrip(..).unwrap() returns Ok
RoundtripOk ==
    /\ pc = "roundtrip"
    /\ pc' = "idle"
    /\ SessionFrame
    /\ UNCHANGED <<events, polls, dispatched>>

\* sync_roundtrip(..).unwrap() on Err
RoundtripFail ==
    /\ pc = "roundtrip"
    /\ env.fail
    /\ pc' = "panic_roundtrip"
    /\ SessionFrame
    /\ UNCHANGED <<events, polls, dispatched>>

\* events(): self.display.flush().unwrap() returns Ok
FlushOk ==
    /\ pc = "idle"
    /\ Len(polls) < env.polls
    /\ pc' = "read"
    /\ dispatched' = FALSE
    /\ SessionFrame
    /\ UNCHANGED <<events, polls>>

\* events(): self.display.flush().unwrap() on Err
FlushFail ==
    /\ pc = "idle"
    /\ env.fail
    /\ pc' = "panic_flush"
    /\ dispatched' = FALSE
    /\ SessionFrame
    /\ UNCHANGED <<events, polls>>

\* events(): prepare_read() is None, or read_events().unwrap() returns Ok
ReadOk ==
    /\ pc = "read"
    /\ pc' = "dispatch"
    /\ SessionFrame
    /\ UNCHANGED <<events, polls, dispatched>>

\* a read error that is dropped, the poll going on to dispatch
ReadFail_swallowed ==
    /\ pc = "read"
    /\ env.fail
    /\ pc' = "dispatch"
    /\ SessionFrame
    /\ UNCHANGED <<events, polls, dispatched>>

\* events(): read_events().unwrap() on Err
ReadFail ==
    /\ pc = "read"
    /\ env.fail
    /\ pc' = "panic_read"
    /\ SessionFrame
    /\ UNCHANGED <<events, polls, dispatched>>

\* events(): dispatch_pending(..).unwrap() on Err
DispatchFail ==
    /\ pc = "dispatch"
    /\ env.fail
    /\ pc' = "panic_dispatch"
    /\ SessionFrame
    /\ UNCHANGED <<events, polls, dispatched>>

\* a copy of the queue returned, the queue left as it was
Drained_kept(queue) == [returned |-> queue, left |-> queue]

\* self.inner.events.drain(..).collect::<Vec<Event>>()
Drained(queue) == [returned |-> queue, left |-> <<>>]

\* events(): dispatch_pending returned Ok, the queue is drained and returned
Drain ==
    /\ pc = "dispatch"
    /\ polls' = Append(polls, Drained(events).returned)
    /\ events' = Drained(events).left
    /\ pc' = "idle"
    /\ SessionFrame
    /\ UNCHANGED dispatched

Next ==
    \/ SeatDiscovered
    \/ ManagerDiscovered
    \/ \E ts \in 1..wl_seat_calls : ToolAdded(ts)
    \/ \E ts \in 1..wl_seat_calls, kind \in OtherSeatEvents : SeatOther(ts, kind)
    \/ \E k \in DOMAIN tools, t \in ToolTypes : ToolType(k, t)
    \/ \E k \in DOMAIN tools, flag \in CapInputs : ToolCapability(k, flag)
    \/ \E k \in DOMAIN tools : ToolDone(k)
    \/ \E k \in DOMAIN tools : ToolRemoved(k)
    \/ \E k \in DOMAIN tools : ToolDown(k)
    \/ \E k \in DOMAIN tools : ToolUp(k)
    \/ \E k \in DOMAIN tools, x \in env.xs, y \in env.ys : ToolMotion(k, x, y)
    \/ \E k \in DOMAIN tools, raw \in env.raws : ToolPressure(k, raw)
    \/ \E k \in DOMAIN tools, kind \in OtherToolEvents : ToolOther(k, kind)
    \/ RoundtripOk
    \/ RoundtripFail
    \/ FlushOk
    \/ FlushFail
    \/ ReadOk
    \/ ReadFail
    \/ DispatchFail
    \/ Drain

Spec == Init /\ [][Next]_vars

(* ---------------------------------------------------------------------- *)
(* Properties                                                              *)
(* ---------------------------------------------------------------------- *)
\* the events of the history, without their provenance
SentEvents == [i \in DOMAIN sent |-> sent[i].ev]

\* ToolCreated events among the first n entries of the history
RECURSIVE CreatedBefore(_)
CreatedBefore(n) ==
    IF n = 0 THEN 0
    ELSE CreatedBefore(n - 1) + (IF sent[n].ev.kind = "ToolCreated" THEN 1 ELSE 0)

\* C1: once exactly one SeatDiscovered and exactly one ManagerDiscovered have
\* been handled, in either order, wl_seat has been called exactly once and
\* tablet_seat is set.
C1_OneBindingEitherOrder ==
    (n_seat = 1 /\ n_manager = 1) => (wl_seat_calls = 1 /\ tablet_seat # None)

\* the manager arrived first, was kept pending, and the seat completed the binding
C1_Witness ==
    /\ n_seat = 1
    /\ n_manager = 1
    /\ unseated_manager = 1
    /\ seat = 1
    /\ wl_seat_calls = 1
    /\ tablet_seat = 1

\* C2: whatever SeatDiscovered and ManagerDiscovered notifications were
\* handled, the tablet-seat binding has been created at most once.
C2_NeverDoubleBinds == wl_seat_calls <= 1

\* C3: a SeatDiscovered handled while a seat is bound changes neither the
\* bound seat, the pending manager, the binding, the tool-ID counter, the
\* event queue nor the tool closures, creates no binding and does not panic.
C3_SecondSeatIsNoOp ==
    [][(SeatDiscovered /\ seat # None) =>
          /\ UNCHANGED <<seat, unseated_manager, tablet_seat, next_tool_id,
                         events, tools, wl_seat_calls>>
          /\ pc' = pc]_vars

\* a second seat was announced after the binding and the first seat is kept
C3_Witness ==
    /\ n_seat = 2
    /\ seat = 1
    /\ wl_seat_calls = 1
    /\ tablet_seat = 1
    /\ Len(events) = 1

\* C4: every event that is not a ToolCreated is preceded, in the order the
\* events were pushed, by a ToolCreated carrying the same ID.
C4_CreatedPrecedesItsEvents ==
    \A i \in DOMAIN sent :
        sent[i].ev.kind # "ToolCreated" =>
            \E j \in 1..(i - 1) :
                /\ sent[j].ev.kind = "ToolCreated"
                /\ sent[j].ev.id = sent[i].ev.id

\* C5: the n-th ToolCreated pushed in a session carries ID n - 1 (so the IDs
\* start at 0, rise strictly and never repeat), and the counter equals the
\* number of ToolCreated pushed, whatever Removed notifications were handled.
C5_IdsCountCommits ==
    /\ \A i \in DOMAIN sent :
          sent[i].ev.kind = "ToolCreated" =>
              sent[i].ev.tool.id = CreatedBefore(i - 1)
    /\ next_tool_id = CreatedBefore(Len(sent))

\* tools A and B committed, A was removed, then C committed: IDs 0, 1, 2
C5_Witness ==
    /\ Len(sent) = 3
    /\ \A i \in 1..3 :
          /\ sent[i].src = i
          /\ sent[i].ev.kind = "ToolCreated"
          /\ sent[i].ev.tool.id = i - 1
    /\ removed_at[1] = 2

\* C6: the ToolCreated a Done notification pushes carries the type last
\* reported for that tool, a capability set whose true flags are exactly the
\* capabilities reported for it, and the number of ToolCreated pushed earlier
\* as its ID.
C6_CreatedCarriesNegotiation ==
    [][\A k \in DOMAIN tools :
          (ToolDone(k) /\ pc' = pc) =>
              /\ Len(events') = Len(events) + 1
              /\ LET e == events'[Len(events')]
                 IN /\ e.kind = "ToolCreated"
                    /\ e.tool.tool_type = reported[k].type
                    /\ \A f \in KnownCaps :
                          e.tool.capability[f] = (f \in reported[k].flags)
                    /\ e.tool.id = CreatedBefore(Len(sent))]_vars

\* a second tool committed after Type, Capability(pressure), Capability(tilt)
C6_Witness ==
    \E i \in DOMAIN sent :
        /\ sent[i].ev.kind = "ToolCreated"
        /\ sent[i].ev.tool.id = 1
        /\ sent[i].ev.tool.tool_type = "Eraser"
        /\ sent[i].ev.tool.capability.pressure
        /\ sent[i].ev.tool.capability.tilt
        /\ ~sent[i].ev.tool.capability.distance
        /\ reported[sent[i].src].flags = {"pressure", "tilt"}

\* the Vecs of the completed polls, one after the other
RECURSIVE Flatten(_)
Flatten(seqs) ==
    IF seqs = <<>> THEN <<>> ELSE Head(seqs) \o Flatten(Tail(seqs))

\* C7: the Vecs returned by the polls so far, concatenated and followed by
\* the events still queued, are the events in the order they were pushed;
\* and a completed poll leaves the queue empty.
C7_PollsReturnEventsInOrder ==
    /\ Flatten(polls) \o events = SentEvents
    /\ (pc \in {"idle", "read"} /\ polls # <<>>) => events = <<>>

\* two polls completed, the first returned two events, the second one
C7_Witness ==
    /\ Len(polls) = 2
    /\ Len(polls[1]) = 2
    /\ Len(polls[2]) = 1
    /\ pc = "idle"

\* C8: a poll that follows a completed poll and in which no notification is
\* handled does not panic in a handler (only a failing flush, read or
\* dispatch of the transport ends it early), and on completion returns the
\* empty sequence.
C8_QuietPollReturnsEmpty ==
    (polls # <<>> /\ ~dispatched) =>
        /\ pc \in {"idle", "read", "dispatch",
                   "panic_flush", "panic_read", "panic_dispatch"}
        /\ (Len(polls) >= 2 /\ pc = "idle") => polls[Len(polls)] = <<>>

\* the first poll returned events, the second handled nothing and returned none
C8_Witness ==
    /\ Len(polls) = 2
    /\ pc = "idle"
    /\ ~dispatched
    /\ polls[1] # <<>>
    /\ polls[2] = <<>>

\* C9: a Done notification handled before any Type notification does not
\* abort the session.
C9_UntypedCommitDoesNotAbort == pc # "panic_unwrap_type"

\* indices of the ToolCreated events tool k pushed
Commits(k) ==
    {i \in DOMAIN sent : sent[i].src = k /\ sent[i].ev.kind = "ToolCreated"}

\* the ID of the latest ToolCreated of tool k
CommittedId(k) ==
    sent[CHOOSE i \in Commits(k) : \A j \in Commits(k) : j <= i].ev.id

\* C10: for a tool that has committed, a Down, Up, Motion or Pressure
\* notification appends exactly one event of the matching variant at the
\* back of the queue, carrying the tool's committed ID (and, for Motion, the
\* notification's x and y); a Removed notification leaves the queue alone.
C10_CommittedToolTranslation ==
    [][\A k \in DOMAIN tools :
          Commits(k) # {} =>
              /\ ToolDown(k) =>
                    events' = Append(events, [kind |-> "Down", id |-> CommittedId(k)])
              /\ ToolUp(k) =>
                    events' = Append(events, [kind |-> "Up", id |-> CommittedId(k)])
              /\ \A x \in env.xs, y \in env.ys :
                    ToolMotion(k, x, y) =>
                        events' = Append(events, [kind |-> "Moved",
                                                  id |-> CommittedId(k),
                                                  x |-> x, y |-> y])
              /\ \A raw \in env.raws :
                    ToolPressure(k, raw) =>
                        /\ Len(events') = Len(events) + 1
                        /\ SubSeq(events', 1, Len(events)) = events
                        /\ events'[Len(events')].kind = "Pressure"
                        /\ events'[Len(events')].id = CommittedId(k)
              /\ ToolRemoved(k) => events' = events]_vars

\* manager, seat, tool (Pen, pressure, done), down, motion, pressure, up,
\* removed, then one poll: it returns the five events and nothing else
C10_Witness ==
    /\ unseated_manager = 1
    /\ seat = 1
    /\ removed_at = <<5>>
    /\ events = <<>>
    /\ polls = << <<
          [kind |-> "ToolCreated", id |-> 0,
           tool |-> [id |-> 0, tool_type |-> "Pen",
                     capability |-> [tilt |-> FALSE, pressure |-> TRUE,
                                     distance |-> FALSE, rotation |-> FALSE,
                                     slider |-> FALSE, wheel |-> FALSE]]],
          [kind |-> "Down", id |-> 0],
          [kind |-> "Moved", id |-> 0, x |-> 1, y |-> 2],
          [kind |-> "Pressure", id |-> 0, pressure |-> <<32767, 65535>>],
          [kind |-> "Up", id |-> 0] >> >>

\* the tool notifications the Event vocabulary has a variant for but the
\* handler has no arm for
UnwiredKinds == {"Distance", "Tilt", "Rotation", "Slider", "Wheel"}

\* C11: for a tool that has committed, a Distance, Tilt, Rotation, Slider or
\* Wheel notification appends exactly one event of the same-named variant
\* carrying the tool's committed ID.
C11_AxesAreTranslated ==
    [][\A k \in DOMAIN tools, kind \in UnwiredKinds :
          (Commits(k) # {} /\ ToolOther(k, kind)) =>
              /\ Len(events') = Len(events) + 1
              /\ events'[Len(events')].kind = kind
              /\ events'[Len(events')].id = CommittedId(k)]_vars

\* C12: a Removed notification handled for a tool that has not committed
\* appends no event, does not panic and leaves the tool-ID counter as it
\* was; and a commit takes the value the counter holds as its ID.
C12_RemovedWhileNegotiating ==
    [][\A k \in DOMAIN tools :
          /\ (ToolRemoved(k) /\ Commits(k) = {}) =>
                /\ events' = events
                /\ sent' = sent
                /\ next_tool_id' = next_tool_id
                /\ pc' = pc
          /\ (ToolDone(k) /\ pc' = pc) =>
                events'[Len(events')].tool.id = next_tool_id]_vars

\* tool 1 committed with ID 0, tool 2 was removed while negotiating, then
\* tool 3 committed and received ID 1
C12_Witness ==
    /\ Len(tools) = 3
    /\ Len(sent) = 2
    /\ sent[1].src = 1
    /\ sent[1].ev.tool.id = 0
    /\ removed_at[2] = 1
    /\ Commits(2) = {}
    /\ sent[2].src = 3
    /\ sent[2].ev.kind = "ToolCreated"
    /\ sent[2].ev.tool.id = 1
    /\ next_tool_id = 2

\* the tool had pushed a ToolCreated when its first Removed was handled
RemovedCommitted(k) ==
    /\ removed_at[k] # -1
    /\ \E j \in 1..removed_at[k] :
          sent[j].src = k /\ sent[j].ev.kind = "ToolCreated"

\* C13: once Removed has been handled for a committed tool, no notification
\* of that tool pushes a further event (none bearing its ID, no new
\* ToolCreated), and no later ToolCreated reuses its ID.
C13_RemovedTearsDown ==
    \A i \in DOMAIN sent :
        /\ RemovedCommitted(sent[i].src) => i <= removed_at[sent[i].src]
        /\ sent[i].ev.kind = "ToolCreated" =>
              \A j \in 1..(i - 1) :
                  sent[j].ev.kind = "ToolCreated" => sent[j].ev.id # sent[i].ev.id

\* C14: every Pressure event carries the ratio raw : 65535 of the raw value
\* of its notification, a value between 0 and 1; raw 0 gives 0 and raw
\* 65535 gives 1.
C14_PressureNormalised ==
    \A i \in DOMAIN sent :
        sent[i].note.kind = "Pressure" =>
            LET raw == sent[i].note.pressure
                num == sent[i].ev.pressure[1]
                den == sent[i].ev.pressure[2]
            IN /\ sent[i].ev.kind = "Pressure"
               /\ raw \in 0..65535
               /\ den = 65535
               /\ num = raw
               /\ 0 <= num /\ num <= den
               /\ (raw = 0) => (num = 0)
               /\ (raw = 65535) => (num = den)

\* a raw 0 and a raw 65535 were both translated, to 0 and to 1
C14_Witness ==
    \E i, j \in DOMAIN sent :
        /\ sent[i].note.kind = "Pressure"
        /\ sent[i].note.pressure = 0
        /\ sent[i].ev.pressure = <<0, 65535>>
        /\ sent[j].note.kind = "Pressure"
        /\ sent[j].note.pressure = 65535
        /\ sent[j].ev.pressure = <<65535, 65535>>

\* the panics of events(): flush, read, dispatch
PollPanics == {"panic_flush", "panic_read", "panic_dispatch"}

\* C15: a failing flush, read or dispatch of events() ends the poll in a
\* panic: nothing is returned, the queue is not drained, and from the panic
\* no later step of the poll and no further poll runs.
C15_PollFailureIsFatal ==
    [][/\ (FlushFail \/ ReadFail \/ DispatchFail) =>
             /\ pc' \in PollPanics
             /\ polls' = polls
             /\ events' = events
       /\ pc \in PollPanics =>
             /\ pc' = pc
             /\ polls' = polls
             /\ events' = events]_vars

\* the second poll panicked in dispatch with an event queued that no poll
\* returned
C15_Witness ==
    /\ pc = "panic_dispatch"
    /\ Len(polls) = 1
    /\ events # <<>>

\* C16: a Capability notification with a flag outside the six known ones, a
\* tool notification without an arm, and a tablet-seat notification other
\* than ToolAdded leave every tool's type, capabilities and ID, the counter,
\* the queue and the bindings as they were, and dispatch goes on.
C16_UnknownIsIgnored ==
    [][(\/ /\ "unknown" \in env.flags
           /\ \E k \in DOMAIN tools : ToolCapability(k, "unknown")
        \/ /\ ignored' # ignored
           /\ \/ \E k \in DOMAIN tools, kind \in OtherToolEvents :
                    ToolOther(k, kind)
              \/ \E ts \in 1..wl_seat_calls, kind \in OtherSeatEvents :
                    SeatOther(ts, kind)) =>
           /\ tools' = tools
           /\ next_tool_id' = next_tool_id
           /\ events' = events
           /\ sent' = sent
           /\ pc' = pc
           /\ <<seat, unseated_manager, tablet_seat>>' =
                  <<seat, unseated_manager, tablet_seat>>]_vars

\* a tool that was notified pressure and an unknown flag committed with
\* pressure as its only capability
C16_Witness ==
    \E i \in DOMAIN sent :
        /\ sent[i].ev.kind = "ToolCreated"
        /\ reported[sent[i].src].flags = {"unknown", "pressure"}
        /\ sent[i].ev.tool.capability =
               [DefaultCapability EXCEPT !.pressure = TRUE]

\* C17: a tablet seat is bound exactly when a seat and a tablet manager have
\* both been discovered.
C17_BoundIffBothKnown ==
    /\ (tablet_seat # None) <=> (n_seat >= 1 /\ n_manager >= 1)
    /\ (tablet_seat # None) <=> (wl_seat_calls >= 1)
    /\ (seat # None) <=> (n_seat >= 1)

\* the seat came first and the manager bound to it at once
C17_Witness ==
    /\ n_seat = 1
    /\ n_manager = 1
    /\ unseated_manager = None
    /\ seat # None
    /\ tablet_seat # None

\* the ToolCreated entries of tool k among the first n pushed events
CommitsBefore(k, n) ==
    {j \in Commits(k) : j < n}

\* C18: with several tools announced, each tool's closure holds the type and
\* the capabilities notified to that tool and no other, each ToolCreated
\* carries them, no ID is committed by two tools, and every event a
\* committed tool pushes after its commit carries the ID of that tool's own
\* latest commit.
C18_ToolsAreIndependent ==
    /\ \A k \in DOMAIN tools :
          /\ tools[k].ttype = reported[k].type
          /\ \A f \in KnownCaps : tools[k].cap[f] = (f \in reported[k].flags)
          /\ Commits(k) # {} => tools[k].this_tool_id = CommittedId(k)
    /\ \A i, j \in DOMAIN sent :
          (/\ sent[i].ev.kind = "ToolCreated"
           /\ sent[j].ev.kind = "ToolCreated"
           /\ sent[i].src # sent[j].src) => sent[i].ev.id # sent[j].ev.id
    /\ \A i \in DOMAIN sent :
          LET k == sent[i].src
              mine == CommitsBefore(k, i)
          IN (sent[i].ev.kind # "ToolCreated" /\ mine # {}) =>
                 \E c \in mine :
                     /\ \A d \in mine : d <= c
                     /\ sent[i].ev.id = sent[c].ev.id

\* a Pen and an Eraser committed one after the other, then the Pen reported
\* contact under its own ID, not the newest one
C18_Witness ==
    /\ Len(sent) = 3
    /\ sent[1].src = 1 /\ sent[1].ev.kind = "ToolCreated"
    /\ sent[1].ev.tool.tool_type = "Pen" /\ sent[1].ev.id = 0
    /\ sent[2].src = 2 /\ sent[2].ev.kind = "ToolCreated"
    /\ sent[2].ev.tool.tool_type = "Eraser" /\ sent[2].ev.id = 1
    /\ sent[3] = [src |-> 1, note |-> [kind |-> "Down"], ev |-> EvDown(0)]
    /\ next_tool_id = 2

\* C19: each announced tool commits at most once: over the whole session a
\* tool pushes at most one ToolCreated, however many Done notifications it
\* is sent.
C19_CommitsAtMostOnce ==
    \A k \in DOMAIN tools : Cardinality(Commits(k)) <= 1

====
